---- MODULE Spec2Model ----
(***************************************************************************)
(* Sentry-CV: the control loop of SentrySystem.run (main.py), the alert    *)
(* debouncer _trigger_alert, the zone test _is_inside_zone and the         *)
(* detector filter SentryDetector.detect (detector.py).                    *)
(*                                                                         *)
(* Time is counted in clock units of 1/TimeRes second, so that the float   *)
(* returned by time.time() has a fractional part and int() truncates it.   *)
(* Confidences are counted in tenths.                                      *)
(***************************************************************************)
EXTENDS Integers, Naturals, Sequences, FiniteSets, TLC

VARIABLES
    pc,                  \* position of run(): "run", "first_read", "read", "infer", "for", "poll", "finally", "done", "raised"; "unit", "zone_unit", "detect_unit" drive one method alone
    cap_opened,          \* self._cap.isOpened()
    cap_released,        \* self._cap.release() has been called
    windows_destroyed,   \* cv2.destroyAllWindows() has been called
    danger_zone,         \* self._danger_zone: None or the four vertices
    last_alert_time,     \* self._last_alert_time
    frame_count,         \* self._frame_count
    current_detections,  \* self._current_detections
    clock,               \* the value time.time() returns, in clock units
    frame,               \* the local `frame` of run(): the ordinal of the read that produced it, NoFrame if the read failed or none was made
    idx,                 \* position of `for det in self._current_detections`
    threat_active,       \* the local `threat_active` of run()
    alerts,              \* log of the fired alerts (the body of the `if` of _trigger_alert)
    audio,               \* the daemon threads started on _play_alarm, by state
    exc,                 \* the exception propagating out of the running call, "none" if none
    inferTicks,          \* log: the frame counters at which self._detector.detect was invoked
    reads,               \* log: number of self._cap.read() calls
    displayed,           \* log: number of cv2.imshow calls
    calls,               \* log of the calls made by the unit drivers
    tick_start           \* log: the clock when the frame of the current tick was read

vars == <<pc, cap_opened, cap_released, windows_destroyed, danger_zone,
          last_alert_time, frame_count, current_detections, clock, frame, idx,
          threat_active, alerts, audio, exc, inferTicks, reads, displayed, calls,
          tick_start>>

None == "None"

NoFrame == 0   \* the local `frame` when read() returned ret = False

----------------------------------------------------------------------------
\* Bounds of the model

TimeRes == 2      \* clock units per second
MaxTicks == 6     \* frames the stream delivers inside the loop
MaxBoxes == 2     \* boxes in one raw model output
MaxCalls == 4     \* calls made by the "unit" driver
FrameW == 8       \* width of the captured frames
FrameH == 8       \* height of the captured frames
MaxDim == 6       \* largest frame side and box coordinate given to the zone driver

----------------------------------------------------------------------------
\* Program constants

ALERT_COOLDOWN_SECONDS == 5
INFERENCE_STRIDE == 3
CONF_THRESHOLD == 4                  \* 0.4, in tenths
allowed_classes == {0, 43, 76}

class_names(class_id) ==
    CASE class_id = 0  -> "person"
      [] class_id = 43 -> "knife"
      [] class_id = 76 -> "scissors"
      [] OTHER         -> "Unknown"

----------------------------------------------------------------------------
\* Inputs

CooldownUnits == ALERT_COOLDOWN_SECONDS * TimeRes

\* time that can pass between two readings of the clock
Dts == {0, CooldownUnits, CooldownUnits + 1}

\* time that can pass between two detections of one tick
CallDts == {0, CooldownUnits + 1}

\* the same, with a step shorter than the cooldown
TickDts == {0, 1, CooldownUnits + 1}

MaxClock == 2 * (CooldownUnits + 1)

FrameSizes == {<<FrameW, FrameH>>}

BoxInside == <<3, 3, 5, 5>>
BoxOutside == <<0, 0, 2, 1>>
Boxes == {BoxInside, BoxOutside}

\* what the model reports for one object: a person and a knife in the zone, a
\* person outside it, an object of another class, a person at the threshold
RawBoxes ==
    { [cls |-> 0,  conf |-> CONF_THRESHOLD + 1, xyxy |-> BoxInside],
      [cls |-> 43, conf |-> CONF_THRESHOLD + 1, xyxy |-> BoxInside],
      [cls |-> 0,  conf |-> CONF_THRESHOLD + 1, xyxy |-> BoxOutside],
      [cls |-> 1,  conf |-> CONF_THRESHOLD + 1, xyxy |-> BoxInside],
      [cls |-> 0,  conf |-> CONF_THRESHOLD,     xyxy |-> BoxInside] }

SeqsUpTo(S, n) == UNION {[1..k -> S] : k \in 0..n}

RawOutputs == SeqsUpTo(RawBoxes, MaxBoxes)

ImwriteOutcomes == {"ok", "false", "raise"}

----------------------------------------------------------------------------
\* SentryDetector.detect

RECURSIVE detectAtThreshold(_)
detectAtThreshold(results) ==
    IF results = <<>> THEN <<>>
    ELSE LET box == Head(results)
             rest == detectAtThreshold(Tail(results))
         IN  IF box.cls \in allowed_classes /\ box.conf >= CONF_THRESHOLD
             THEN <<[box |-> box.xyxy, conf |-> box.conf,
                     class_id |-> box.cls, label |-> class_names(box.cls)]>> \o rest
             ELSE rest

RECURSIVE detect(_)
detect(results) ==
    IF results = <<>> THEN <<>>
    ELSE LET box == Head(results)
             rest == detect(Tail(results))
         IN  IF box.cls \in allowed_classes /\ box.conf > CONF_THRESHOLD
             THEN <<[box |-> box.xyxy, conf |-> box.conf,
                     class_id |-> box.cls, label |-> class_names(box.cls)]>> \o rest
             ELSE rest

----------------------------------------------------------------------------
\* Zone

_initialize_danger_zone(frame_width, frame_height) ==
    LET margin_x == frame_width \div 4
        margin_y == frame_height \div 4
    IN  << <<margin_x, margin_y>>,
           <<frame_width - margin_x, margin_y>>,
           <<frame_width - margin_x, frame_height - margin_y>>,
           <<margin_x, frame_height - margin_y>> >>

\* cv2.pointPolygonTest(contour, pt, False) on integer points: the contour's
\* edges are walked from (last vertex, first vertex); 0 on an edge, otherwise
\* +1 / -1 by the parity of the crossings
pointPolygonTest(cnt, pt) ==
    LET total == Len(cnt)
        V0(i) == cnt[IF i = 1 THEN total ELSE i - 1]
        V(i) == cnt[i]
        x == pt[1]
        y == pt[2]
        Skipped(i) ==
            \/ V0(i)[2] <= y /\ V(i)[2] <= y
            \/ V0(i)[2] > y /\ V(i)[2] > y
            \/ V0(i)[1] < x /\ V(i)[1] < x
        Dist(i) == (y - V0(i)[2]) * (V(i)[1] - V0(i)[1])
                    - (x - V0(i)[1]) * (V(i)[2] - V0(i)[2])
        OnEdge(i) ==
            IF Skipped(i)
            THEN /\ y = V(i)[2]
                 /\ \/ x = V(i)[1]
                    \/ /\ y = V0(i)[2]
                       /\ \/ V0(i)[1] <= x /\ x <= V(i)[1]
                          \/ V(i)[1] <= x /\ x <= V0(i)[1]
            ELSE Dist(i) = 0
        Crosses(i) ==
            /\ ~Skipped(i)
            /\ (IF V(i)[2] < V0(i)[2] THEN 0 - Dist(i) ELSE Dist(i)) > 0
        counter == Cardinality({i \in 1..total : Crosses(i)})
    IN  IF \E i \in 1..total : OnEdge(i) THEN 0
        ELSE IF counter % 2 = 0 THEN 0 - 1 ELSE 1

EdgeIsOutside(zone, box) ==
    IF zone = None THEN FALSE
    ELSE pointPolygonTest(zone, <<(box[1] + box[3]) \div 2, (box[2] + box[4]) \div 2>>) > 0

NoZoneAlwaysInside(zone, box) ==
    IF zone = None THEN TRUE
    ELSE pointPolygonTest(zone, <<(box[1] + box[3]) \div 2, (box[2] + box[4]) \div 2>>) >= 0

_is_inside_zone(zone, box) ==
    IF zone = None THEN FALSE
    ELSE LET center_x == (box[1] + box[3]) \div 2
             center_y == (box[2] + box[4]) \div 2
         IN  pointPolygonTest(zone, <<center_x, center_y>>) >= 0

----------------------------------------------------------------------------
\* Debouncer

CooldownIgnored(current_time, last) == TRUE

CooldownInclusive(current_time, last) ==
    current_time - last >= CooldownUnits

\* the condition of the `if` of _trigger_alert
CooldownElapsed(current_time, last) ==
    current_time - last > CooldownUnits

StampNever(fired, current_time, last) == last

StampEveryCall(fired, current_time, last) == current_time

\* self._last_alert_time after a call
NextAlertTime(fired, current_time, last) ==
    IF fired THEN current_time ELSE last

EveryTickDue(count) == TRUE

FirstOfStrideDue(count) == count % INFERENCE_STRIDE = 1

\* the condition of the inference `if` of run()
InferenceDue(count) == count % INFERENCE_STRIDE = 0

IntOfMinute(current_time) == current_time \div (TimeRes * 60)

\* int(current_time)
IntOf(current_time) == current_time \div TimeRes

\* one call _trigger_alert(frm, detection): time.time() returns current_time,
\* cv2.imwrite ends as wr
_trigger_alert(frm, detection, current_time, wr) ==
    LET fired == CooldownElapsed(current_time, last_alert_time)
    IN  /\ clock' = current_time
        /\ last_alert_time' = NextAlertTime(fired, current_time, last_alert_time)
        /\ IF fired
           THEN /\ alerts' = Append(alerts,
                       [time |-> current_time,
                        label |-> detection.label,
                        frame |-> frm,
                        file |-> IntOf(current_time),
                        written |-> (wr = "ok"),
                        effects |-> IF wr = "raise"
                                    THEN <<"print", "stamp", "imwrite">>
                                    ELSE <<"print", "stamp", "imwrite", "thread">>])
                /\ audio' = IF wr = "raise" THEN audio
                            ELSE [audio EXCEPT !.running = @ + 1]
                /\ exc' = IF wr = "raise" THEN "PersistenceFailure" ELSE exc
           ELSE UNCHANGED <<alerts, audio, exc>>

----------------------------------------------------------------------------
\* SentrySystem.__init__, then run() not yet called

Constructed ==
    /\ cap_opened \in BOOLEAN
    /\ cap_released = FALSE
    /\ windows_destroyed = FALSE
    /\ danger_zone = None
    /\ last_alert_time = 0
    /\ frame_count = 0
    /\ current_detections = <<>>
    /\ clock \in Dts
    /\ frame = NoFrame
    /\ idx = 0
    /\ threat_active = FALSE
    /\ alerts = <<>>
    /\ audio = [running |-> 0, finished |-> 0, failed |-> 0]
    /\ exc = "none"
    /\ inferTicks = <<>>
    /\ reads = 0
    /\ displayed = 0
    /\ calls = <<>>
    /\ tick_start = clock

Init == Constructed /\ pc = "run"

\* run(): the isOpened() check
Open ==
    /\ pc = "run"
    /\ IF cap_opened
       THEN pc' = "first_read" /\ exc' = exc
       ELSE pc' = "raised" /\ exc' = "CaptureUnavailable"
    /\ UNCHANGED <<cap_opened, cap_released, windows_destroyed, danger_zone,
                   last_alert_time, frame_count, current_detections, clock, frame,
                   idx, threat_active, alerts, audio, inferTicks, reads, displayed, calls, tick_start>>

\* run(): the first read, before the try
FirstReadOk ==
    /\ pc = "first_read"
    /\ \E size \in FrameSizes :
          danger_zone' = _initialize_danger_zone(size[1], size[2])
    /\ reads' = reads + 1
    /\ frame' = reads'
    /\ pc' = "read"
    /\ UNCHANGED <<cap_opened, cap_released, windows_destroyed, last_alert_time,
                   frame_count, current_detections, clock, idx, threat_active,
                   alerts, audio, exc, inferTicks, displayed, calls, tick_start>>

FirstReadFails ==
    /\ pc = "first_read"
    /\ reads' = reads + 1
    /\ frame' = NoFrame
    /\ pc' = "read"
    /\ UNCHANGED <<cap_opened, cap_released, windows_destroyed, danger_zone,
                   last_alert_time, frame_count, current_detections, clock, idx,
                   threat_active, alerts, audio, exc, inferTicks, displayed, calls, tick_start>>

FirstReadRaises ==
    /\ pc = "first_read"
    /\ reads' = reads + 1
    /\ exc' = "CaptureError"
    /\ pc' = "raised"
    /\ UNCHANGED <<cap_opened, cap_released, windows_destroyed, danger_zone,
                   last_alert_time, frame_count, current_detections, clock, frame,
                   idx, threat_active, alerts, audio, inferTicks, displayed, calls, tick_start>>

ReadOkInitializesZone ==
    /\ pc = "read"
    /\ frame_count < MaxTicks
    /\ \E dt \in Dts : clock + dt <= MaxClock /\ clock' = clock + dt
    /\ reads' = reads + 1
    /\ frame' = reads'
    /\ frame_count' = frame_count + 1
    /\ pc' = "infer"
    /\ tick_start' = clock'
    /\ danger_zone' = IF danger_zone = None
                      THEN _initialize_danger_zone(FrameW, FrameH)
                      ELSE danger_zone
    /\ UNCHANGED <<cap_opened, cap_released, windows_destroyed,
                   last_alert_time, current_detections, idx, threat_active,
                   alerts, audio, exc, inferTicks, displayed, calls>>

\* the loop: self._cap.read() returns a frame, the counter is incremented
ReadOk ==
    /\ pc = "read"
    /\ frame_count < MaxTicks
    /\ \E dt \in Dts : clock + dt <= MaxClock /\ clock' = clock + dt
    /\ reads' = reads + 1
    /\ frame' = reads'
    /\ frame_count' = frame_count + 1
    /\ pc' = "infer"
    /\ tick_start' = clock'
    /\ UNCHANGED <<cap_opened, cap_released, windows_destroyed, danger_zone,
                   last_alert_time, current_detections, idx, threat_active,
                   alerts, audio, exc, inferTicks, displayed, calls>>

ReadFailsCountsFrame ==
    /\ pc = "read"
    /\ reads' = reads + 1
    /\ frame' = NoFrame
    /\ frame_count' = frame_count + 1
    /\ pc' = "finally"
    /\ UNCHANGED <<cap_opened, cap_released, windows_destroyed, danger_zone,
                   last_alert_time, current_detections, clock, idx,
                   threat_active, alerts, audio, exc, inferTicks, displayed, calls,
                   tick_start>>

ReadFails ==
    /\ pc = "read"
    /\ reads' = reads + 1
    /\ frame' = NoFrame
    /\ pc' = "finally"
    /\ UNCHANGED <<cap_opened, cap_released, windows_destroyed, danger_zone,
                   last_alert_time, frame_count, current_detections, clock, idx,
                   threat_active, alerts, audio, exc, inferTicks, displayed, calls, tick_start>>

ReadRaises ==
    /\ pc = "read"
    /\ reads' = reads + 1
    /\ exc' = "CaptureError"
    /\ pc' = "finally"
    /\ UNCHANGED <<cap_opened, cap_released, windows_destroyed, danger_zone,
                   last_alert_time, frame_count, current_detections, clock, frame,
                   idx, threat_active, alerts, audio, inferTicks, displayed, calls, tick_start>>

\* the loop: the inference `if`, then threat_active = False
InferRun ==
    /\ pc = "infer"
    /\ InferenceDue(frame_count)
    /\ \E results \in RawOutputs : current_detections' = detect(results)
    /\ inferTicks' = Append(inferTicks, frame_count)
    /\ threat_active' = FALSE
    /\ idx' = 1
    /\ pc' = "for"
    /\ UNCHANGED <<cap_opened, cap_released, windows_destroyed, danger_zone,
                   last_alert_time, frame_count, clock, frame, alerts, audio,
                   exc, reads, displayed, calls, tick_start>>

InferRaises ==
    /\ pc = "infer"
    /\ InferenceDue(frame_count)
    /\ inferTicks' = Append(inferTicks, frame_count)
    /\ exc' = "DetectionFailure"
    /\ pc' = "finally"
    /\ UNCHANGED <<cap_opened, cap_released, windows_destroyed, danger_zone,
                   last_alert_time, frame_count, current_detections, clock, frame,
                   idx, threat_active, alerts, audio, reads, displayed, calls, tick_start>>

InferSkip ==
    /\ pc = "infer"
    /\ ~InferenceDue(frame_count)
    /\ threat_active' = FALSE
    /\ idx' = 1
    /\ pc' = "for"
    /\ UNCHANGED <<cap_opened, cap_released, windows_destroyed, danger_zone,
                   last_alert_time, frame_count, current_detections, clock, frame,
                   alerts, audio, exc, inferTicks, reads, displayed, calls, tick_start>>

\* the loop: one iteration of `for det in self._current_detections`
ForDetCallOnInferenceTicks(dts) ==
    /\ pc = "for"
    /\ idx <= Len(current_detections)
    /\ _is_inside_zone(danger_zone, current_detections[idx].box)
    /\ threat_active' = TRUE
    /\ IF frame_count % INFERENCE_STRIDE = 0
       THEN /\ \E dt \in dts, wr \in ImwriteOutcomes :
                  /\ clock + dt <= MaxClock
                  /\ _trigger_alert(frame, current_detections[idx], clock + dt, wr)
            /\ pc' = IF exc' # "none" THEN "finally" ELSE "for"
       ELSE UNCHANGED <<pc, clock, last_alert_time, alerts, audio, exc>>
    /\ idx' = idx + 1
    /\ UNCHANGED <<cap_opened, cap_released, windows_destroyed, danger_zone,
                   frame_count, current_detections, frame, inferTicks, reads,
                   displayed, calls, tick_start>>

ForDetCall(dts) ==
    /\ pc = "for"
    /\ idx <= Len(current_detections)
    /\ _is_inside_zone(danger_zone, current_detections[idx].box)
    /\ threat_active' = TRUE
    /\ \E dt \in dts, wr \in ImwriteOutcomes :
          /\ clock + dt <= MaxClock
          /\ _trigger_alert(frame, current_detections[idx], clock + dt, wr)
    /\ idx' = idx + 1
    /\ pc' = IF exc' # "none" THEN "finally" ELSE "for"
    /\ UNCHANGED <<cap_opened, cap_released, windows_destroyed, danger_zone,
                   frame_count, current_detections, frame, inferTicks, reads,
                   displayed, calls, tick_start>>

ForDetInZone == ForDetCall(CallDts)

ForDetOutside ==
    /\ pc = "for"
    /\ idx <= Len(current_detections)
    /\ ~_is_inside_zone(danger_zone, current_detections[idx].box)
    /\ idx' = idx + 1
    /\ UNCHANGED <<pc, cap_opened, cap_released, windows_destroyed, danger_zone,
                   last_alert_time, frame_count, current_detections, clock, frame,
                   threat_active, alerts, audio, exc, inferTicks, reads, displayed, calls, tick_start>>

\* the loop: zone outline, overlay and cv2.imshow
Show ==
    /\ pc = "for"
    /\ idx > Len(current_detections)
    /\ displayed' = displayed + 1
    /\ pc' = "poll"
    /\ UNCHANGED <<cap_opened, cap_released, windows_destroyed, danger_zone,
                   last_alert_time, frame_count, current_detections, clock, frame,
                   idx, threat_active, alerts, audio, exc, inferTicks, reads, calls, tick_start>>

ShowRaises ==
    /\ pc = "for"
    /\ idx > Len(current_detections)
    /\ exc' = "DisplayError"
    /\ pc' = "finally"
    /\ UNCHANGED <<cap_opened, cap_released, windows_destroyed, danger_zone,
                   last_alert_time, frame_count, current_detections, clock, frame,
                   idx, threat_active, alerts, audio, inferTicks, reads, displayed, calls, tick_start>>

\* the loop: cv2.waitKey(1)
PollQuit ==
    /\ pc = "poll"
    /\ pc' = "finally"
    /\ UNCHANGED <<cap_opened, cap_released, windows_destroyed, danger_zone,
                   last_alert_time, frame_count, current_detections, clock, frame,
                   idx, threat_active, alerts, audio, exc, inferTicks, reads,
                   displayed, calls, tick_start>>

PollContinue ==
    /\ pc = "poll"
    /\ pc' = "read"
    /\ UNCHANGED <<cap_opened, cap_released, windows_destroyed, danger_zone,
                   last_alert_time, frame_count, current_detections, clock, frame,
                   idx, threat_active, alerts, audio, exc, inferTicks, reads,
                   displayed, calls, tick_start>>

\* the finally block of run()
Finally ==
    /\ pc = "finally"
    /\ cap_released' = TRUE
    /\ windows_destroyed' = TRUE
    /\ pc' = IF exc # "none" THEN "raised" ELSE "done"
    /\ UNCHANGED <<cap_opened, danger_zone, last_alert_time, frame_count,
                   current_detections, clock, frame, idx, threat_active, alerts,
                   audio, exc, inferTicks, reads, displayed, calls, tick_start>>

\* _play_alarm on its daemon thread: it ends, or it fails and the failure is
\* caught and printed inside the thread
AudioFinish ==
    /\ audio.running > 0
    /\ audio' = [audio EXCEPT !.running = @ - 1, !.finished = @ + 1]
    /\ UNCHANGED <<pc, cap_opened, cap_released, windows_destroyed, danger_zone,
                   last_alert_time, frame_count, current_detections, clock, frame,
                   idx, threat_active, alerts, exc, inferTicks, reads, displayed, calls, tick_start>>

AudioFailReachesLoop ==
    /\ audio.running > 0
    /\ audio' = [audio EXCEPT !.running = @ - 1, !.failed = @ + 1]
    /\ exc' = "AudioFailure"
    /\ UNCHANGED <<pc, cap_opened, cap_released, windows_destroyed, danger_zone,
                   last_alert_time, frame_count, current_detections, clock, frame,
                   idx, threat_active, alerts, inferTicks, reads, displayed, calls,
                   tick_start>>

AudioFail ==
    /\ audio.running > 0
    /\ audio' = [audio EXCEPT !.running = @ - 1, !.failed = @ + 1]
    /\ UNCHANGED <<pc, cap_opened, cap_released, windows_destroyed, danger_zone,
                   last_alert_time, frame_count, current_detections, clock, frame,
                   idx, threat_active, alerts, exc, inferTicks, reads, displayed, calls, tick_start>>

Next ==
    \/ Open
    \/ FirstReadOk
    \/ FirstReadFails
    \/ FirstReadRaises
    \/ ReadOk
    \/ ReadFails
    \/ ReadRaises
    \/ InferRun
    \/ InferRaises
    \/ InferSkip
    \/ ForDetInZone
    \/ ForDetOutside
    \/ Show
    \/ ShowRaises
    \/ PollQuit
    \/ PollContinue
    \/ Finally
    \/ AudioFinish
    \/ AudioFail

Spec == Init /\ [][Next]_vars

----------------------------------------------------------------------------
\* run() with a finer clock inside the tick; the audio threads, which the
\* loop never observes, are left where they were started

TickDetInZone == ForDetCall(TickDts)

NextTick ==
    \/ Open
    \/ FirstReadOk
    \/ FirstReadFails
    \/ FirstReadRaises
    \/ ReadOk
    \/ ReadFails
    \/ ReadRaises
    \/ InferRun
    \/ InferRaises
    \/ InferSkip
    \/ TickDetInZone
    \/ ForDetOutside
    \/ Show
    \/ ShowRaises
    \/ PollQuit
    \/ PollContinue
    \/ Finally

SpecTick == Init /\ [][NextTick]_vars

----------------------------------------------------------------------------
\* The debouncer alone: a constructed system whose _trigger_alert is called
\* with in-zone detections at successive readings of the clock

UnitDts == {0, 1, CooldownUnits, CooldownUnits + 1}

UnitMaxClock == 2 * (CooldownUnits + 1) + 1

UnitDetections ==
    { [box |-> BoxInside, conf |-> CONF_THRESHOLD + 1, class_id |-> c,
       label |-> class_names(c)] : c \in {0, 43} }

InitDebounce == Constructed /\ pc = "unit"

DebounceCall ==
    /\ pc = "unit"
    /\ Len(calls) < MaxCalls
    /\ \E dt \in UnitDts, det \in UnitDetections, wr \in ImwriteOutcomes :
          /\ clock + dt <= UnitMaxClock
          /\ _trigger_alert(Len(calls) + 1, det, clock + dt, wr)
          /\ calls' = Append(calls,
                 [now |-> clock + dt,
                  label |-> det.label,
                  before |-> last_alert_time,
                  after |-> last_alert_time',
                  fired |-> Len(alerts') > Len(alerts)])
    /\ UNCHANGED <<pc, cap_opened, cap_released, windows_destroyed, danger_zone,
                   frame_count, current_detections, frame, idx, threat_active,
                   inferTicks, reads, displayed, tick_start>>

NextDebounce ==
    \/ DebounceCall
    \/ AudioFinish
    \/ AudioFail

SpecDebounce == InitDebounce /\ [][NextDebounce]_vars

----------------------------------------------------------------------------
\* The zone alone: _initialize_danger_zone is called once with the size of a
\* frame, then _is_inside_zone is called with a box

ZoneDims == 1..MaxDim

ZoneCoords == (0 - 1)..(MaxDim + 1)

ZoneBoxes ==
    {b \in ZoneCoords \X ZoneCoords \X ZoneCoords \X ZoneCoords :
        b[1] <= b[3] /\ b[2] <= b[4]}

InitZone == Constructed /\ pc = "zone_unit"

ZoneInitCall ==
    /\ pc = "zone_unit"
    /\ danger_zone = None
    /\ \E w \in ZoneDims, h \in ZoneDims :
          /\ danger_zone' = _initialize_danger_zone(w, h)
          /\ calls' = <<[w |-> w, h |-> h]>>
    /\ UNCHANGED <<pc, cap_opened, cap_released, windows_destroyed, last_alert_time,
                   frame_count, current_detections, clock, frame, idx, threat_active,
                   alerts, audio, exc, inferTicks, reads, displayed, tick_start>>

ZoneProbe ==
    /\ pc = "zone_unit"
    /\ danger_zone # None
    /\ Len(calls) = 1
    /\ \E box \in ZoneBoxes :
          calls' = <<calls[1],
                     [box |-> box, inside |-> _is_inside_zone(danger_zone, box)]>>
    /\ UNCHANGED <<pc, cap_opened, cap_released, windows_destroyed, danger_zone,
                   last_alert_time, frame_count, current_detections, clock, frame,
                   idx, threat_active, alerts, audio, exc, inferTicks, reads,
                   displayed, tick_start>>

NextZone ==
    \/ ZoneInitCall
    \/ ZoneProbe

SpecZone == InitZone /\ [][NextZone]_vars

----------------------------------------------------------------------------
\* The detector alone: self._current_detections = self._detector.detect(frame)
\* on one raw output of the model

DetectorClasses == allowed_classes \cup {1}

DetectorConfs == {CONF_THRESHOLD - 1, CONF_THRESHOLD, CONF_THRESHOLD + 1}

DetectorBoxes == [cls : DetectorClasses, conf : DetectorConfs, xyxy : Boxes]

DetectorOutputs == SeqsUpTo(DetectorBoxes, MaxBoxes)

InitDetect == Constructed /\ pc = "detect_unit"

DetectCall ==
    /\ pc = "detect_unit"
    /\ calls = <<>>
    /\ \E results \in DetectorOutputs :
          /\ current_detections' = detect(results)
          /\ calls' = <<[raw |-> results]>>
    /\ UNCHANGED <<pc, cap_opened, cap_released, windows_destroyed, danger_zone,
                   last_alert_time, frame_count, clock, frame, idx, threat_active,
                   alerts, audio, exc, inferTicks, reads, displayed, tick_start>>

NextDetect == DetectCall

SpecDetect == InitDetect /\ [][NextDetect]_vars

----------------------------------------------------------------------------
\* Properties

\* the detections of the current tick already handed to the for loop's body
\* that were inside the zone: each of them was passed to _trigger_alert
PassedInZone ==
    {k \in 1..Len(current_detections) :
        k < idx /\ _is_inside_zone(danger_zone, current_detections[k].box)}

\* a step of the for loop that calls _trigger_alert
TriggerStep ==
    /\ pc = "for"
    /\ idx <= Len(current_detections)
    /\ _is_inside_zone(danger_zone, current_detections[idx].box)
    /\ idx' = idx + 1

\* C1: any two fired alerts have trigger timestamps that differ by strictly
\* more than ALERT_COOLDOWN_SECONDS, whatever number of in-zone detections
\* was passed to _trigger_alert between them.
C1_DebounceSpacing ==
    \A i \in 1..Len(alerts) : \A j \in 1..Len(alerts) :
        i < j => alerts[j].time - alerts[i].time > ALERT_COOLDOWN_SECONDS * TimeRes

\* two alerts fired on different ticks, the second tick holding two in-zone
\* detections
C1_Witness ==
    /\ Len(alerts) = 2
    /\ alerts[1].frame # alerts[2].frame
    /\ Cardinality(PassedInZone) = 2

RECURSIVE GreedyCount(_, _)
GreedyCount(times, last) ==
    IF times = <<>> THEN 0
    ELSE IF Head(times) - last > ALERT_COOLDOWN_SECONDS * TimeRes
         THEN 1 + GreedyCount(Tail(times), Head(times))
         ELSE GreedyCount(Tail(times), last)

\* C2: a call of _trigger_alert at time now fires and sets lastAlertTimestamp
\* to now if and only if now - lastAlertTimestamp > 5 (a gap of exactly 5 does
\* not fire), and the number of fired alerts is the greedy count of the gaps
\* larger than the cooldown over the times of the calls.
C2_FiringRule ==
    /\ \A i \in 1..Len(calls) :
          /\ calls[i].fired <=>
                calls[i].now - calls[i].before > ALERT_COOLDOWN_SECONDS * TimeRes
          /\ calls[i].fired => calls[i].after = calls[i].now
          /\ ~calls[i].fired => calls[i].after = calls[i].before
    /\ Len(alerts) = GreedyCount([i \in 1..Len(calls) |-> calls[i].now], 0)
    /\ Len(alerts) = Cardinality({i \in 1..Len(calls) : calls[i].fired})

\* a call exactly one cooldown after a fired alert stayed quiet, and a later
\* call fired
C2_Witness ==
    \E i \in 1..Len(calls) : \E j \in 1..Len(calls) : \E k \in 1..Len(calls) :
        /\ i < j /\ j < k
        /\ calls[i].fired
        /\ ~calls[j].fired
        /\ calls[j].now - calls[j].before = ALERT_COOLDOWN_SECONDS * TimeRes
        /\ calls[j].before = calls[i].now
        /\ calls[k].fired

\* C3: while no alert has fired yet in the session, the first in-zone
\* detection passed to _trigger_alert fires, whatever the clock reads: once
\* an in-zone detection has been passed, an alert has fired.
C3_NeverAlertedFires ==
    PassedInZone # {} => alerts # <<>>

\* C4: a call of _trigger_alert made within the cooldown leaves
\* lastAlertTimestamp unchanged, saves no evidence and starts no audio worker,
\* whatever the label of the detection.
C4_QuietCallChangesNothing ==
    [][(TriggerStep /\ clock' - last_alert_time <= ALERT_COOLDOWN_SECONDS * TimeRes)
          => /\ last_alert_time' = last_alert_time
             /\ alerts' = alerts
             /\ audio' = audio
             /\ exc' = exc]_vars

\* a knife in the zone has just been passed to _trigger_alert, later than and
\* within the cooldown of the alert fired for a person
C4_Witness ==
    /\ pc = "for"
    /\ idx - 1 \in PassedInZone
    /\ current_detections[idx - 1].label = "knife"
    /\ alerts # <<>>
    /\ alerts[Len(alerts)].label = "person"
    /\ alerts[Len(alerts)].time = last_alert_time
    /\ clock > last_alert_time
    /\ clock - last_alert_time <= ALERT_COOLDOWN_SECONDS * TimeRes

\* the ticks whose inference decision has been taken
TicksDecided == IF pc = "infer" THEN frame_count - 1 ELSE frame_count

\* C5: the detector is invoked exactly on the ticks whose frame counter is a
\* multiple of 3, and on every other tick the detection cache is left as the
\* preceding tick left it.
C5_DetectionCadence ==
    /\ [](inferTicks = [i \in 1..(TicksDecided \div 3) |-> 3 * i])
    /\ [][(current_detections' # current_detections)
             => (pc = "infer" /\ frame_count % 3 = 0)]_vars

\* the sixth tick: the detector has run on ticks 3 and 6 and has overwritten
\* the cache of tick 3
C5_Witness ==
    /\ frame_count = 6
    /\ pc = "for"
    /\ inferTicks = <<3, 6>>
    /\ current_detections # <<>>

\* C6: when the detector call fails on an inference tick, the loop does not
\* stop or raise: the rest of the tick runs on the previous cache.
C6_DetectionFailureIsSoft ==
    exc = "DetectionFailure" => pc \notin {"finally", "done", "raised"}

\* C7: when an alert fires and the evidence write fails, the audio worker is
\* still started, lastAlertTimestamp holds the firing time and the loop
\* continues.
C7_PersistenceFailureIsSoft ==
    \A i \in 1..Len(alerts) :
        ~alerts[i].written =>
            /\ alerts[i].effects = <<"print", "stamp", "imwrite", "thread">>
            /\ last_alert_time >= alerts[i].time
            /\ exc # "PersistenceFailure"

\* C8: on every way run() ends after the capture was opened, the capture has
\* been released and the windows destroyed.
C8_ReleaseOnStopped ==
    (cap_opened /\ pc \in {"done", "raised"})
        => (cap_released /\ windows_destroyed)

\* C9: when the capture cannot be opened, run() fails before any frame is
\* read or processed and the capture handle is not left unreleased.
C9_CaptureOpenFailure ==
    (~cap_opened /\ pc = "raised")
        => /\ exc = "CaptureUnavailable"
           /\ reads = 0
           /\ frame_count = 0
           /\ inferTicks = <<>>
           /\ alerts = <<>>
           /\ displayed = 0
           /\ cap_released

\* C10: while the danger zone is not initialized, _is_inside_zone is false
\* for every box, a box centered at the origin included, no detection is
\* marked in-zone and no alert fires.
C10_NoZoneDefault ==
    danger_zone = None =>
        /\ \A box \in Boxes \cup {<<0, 0, 0, 0>>} : ~_is_inside_zone(danger_zone, box)
        /\ ~threat_active
        /\ alerts = <<>>
        /\ last_alert_time = 0

\* no zone, the cooldown has elapsed, and a detection in the middle of the
\* frame has gone through the for loop
C10_Witness ==
    /\ danger_zone = None
    /\ pc = "for"
    /\ idx = 2
    /\ current_detections[1].box = BoxInside
    /\ clock - last_alert_time > ALERT_COOLDOWN_SECONDS * TimeRes

\* C11: for a zone initialized from a frame of width w >= 1 and height
\* h >= 1, a box is in-zone if and only if its center (floor of the mean of
\* its corners) satisfies floor(w/4) <= cx <= w - floor(w/4) and
\* floor(h/4) <= cy <= h - floor(h/4); edges and corners count as inside.
C11_InclusiveContainment ==
    (pc = "zone_unit" /\ Len(calls) = 2) =>
        LET w == calls[1].w
            h == calls[1].h
            b == calls[2].box
            cx == (b[1] + b[3]) \div 2
            cy == (b[2] + b[4]) \div 2
        IN  calls[2].inside <=>
               /\ w \div 4 <= cx /\ cx <= w - (w \div 4)
               /\ h \div 4 <= cy /\ cy <= h - (h \div 4)

\* the center of the probed box is the corner (mx, my) of a zone with
\* nonzero margins, and the box was reported inside
C11_Witness ==
    /\ pc = "zone_unit"
    /\ Len(calls) = 2
    /\ calls[1].w \div 4 > 0
    /\ calls[1].h \div 4 > 0
    /\ (calls[2].box[1] + calls[2].box[3]) \div 2 = calls[1].w \div 4
    /\ (calls[2].box[2] + calls[2].box[4]) \div 2 = calls[1].h \div 4
    /\ calls[2].inside

\* C12: detect returns exactly the boxes of the raw output whose class id is
\* in {0, 43, 76} and whose confidence is strictly greater than 0.4, in the
\* order of the raw output, with nothing added; every detection in the cache
\* satisfies both conditions.
C12_DetectorFiltering ==
    (pc = "detect_unit" /\ calls # <<>>) =>
        LET raw == calls[1].raw
            Passes(b) == b.cls \in {0, 43, 76} /\ b.conf > 4
            kept == SelectSeq(raw, Passes)
        IN  /\ Len(current_detections) = Len(kept)
            /\ \A i \in 1..Len(kept) :
                  /\ current_detections[i].box = kept[i].xyxy
                  /\ current_detections[i].conf = kept[i].conf
                  /\ current_detections[i].class_id = kept[i].cls
            /\ \A i \in 1..Len(current_detections) :
                  /\ current_detections[i].class_id \in {0, 43, 76}
                  /\ current_detections[i].conf > 4

\* a raw output of two boxes of allowed classes, the first at confidence
\* exactly 0.4 and dropped, the second above it and kept
C12_Witness ==
    /\ pc = "detect_unit"
    /\ calls # <<>>
    /\ Len(calls[1].raw) = 2
    /\ calls[1].raw[1].cls = 43
    /\ calls[1].raw[1].conf = 4
    /\ calls[1].raw[2].cls = 76
    /\ Len(current_detections) = 1
    /\ current_detections[1].label = "scissors"

\* the steps of run() itself
LoopStep ==
    \/ Open
    \/ FirstReadOk \/ FirstReadFails \/ FirstReadRaises
    \/ ReadOk \/ ReadFails \/ ReadRaises
    \/ InferRun \/ InferRaises \/ InferSkip
    \/ ForDetInZone \/ ForDetOutside
    \/ Show \/ ShowRaises
    \/ PollQuit \/ PollContinue
    \/ Finally

\* C13: the audio alert runs on a worker the loop never waits for: while
\* run() has not ended the loop can take its next step whatever the state of
\* the workers, and a step of a worker (its end or its failure) changes
\* neither the loop's position, a pending error, lastAlertTimestamp, the frame
\* counter, the detection cache nor the zone.
C13_FireAndForgetAudio ==
    /\ [](pc \notin {"done", "raised"} => ENABLED LoopStep)
    /\ [][(audio'.running < audio.running)
             => /\ pc' = pc
                /\ exc' = exc
                /\ last_alert_time' = last_alert_time
                /\ frame_count' = frame_count
                /\ current_detections' = current_detections
                /\ danger_zone' = danger_zone]_vars

\* the loop is on a later tick than the last alert's while that alert's
\* worker is still running, and an earlier worker has failed
C13_Witness ==
    /\ pc = "infer"
    /\ alerts # <<>>
    /\ frame > alerts[Len(alerts)].frame
    /\ audio.running > 0
    /\ audio.failed > 0
    /\ exc = "none"

\* C14: the danger zone is written at most once, in Starting, from the first
\* read attempt; during the loop it is never written, so when the first read
\* failed no later successful read initializes it and no detection is ever
\* in-zone.
C14_ZoneFixedInLoop ==
    /\ [][(danger_zone' # danger_zone)
             => (pc = "first_read" /\ danger_zone = None /\ reads = 0)]_vars
    /\ []((danger_zone = None /\ pc \notin {"run", "first_read"})
             => (PassedInZone = {} /\ ~threat_active))

\* the first read failed, later reads succeeded, and on tick 4 the two cached
\* mid-frame detections of tick 3 went through the for loop
C14_Witness ==
    /\ danger_zone = None
    /\ pc = "poll"
    /\ frame_count = 4
    /\ frame = reads
    /\ Len(current_detections) = 2
    /\ current_detections[1].box = BoxInside
    /\ current_detections[2].box = BoxInside

\* a step of the loop in which read() returned ret = False
ReadFailedStep ==
    /\ pc = "read"
    /\ reads' = reads + 1
    /\ frame' = NoFrame
    /\ exc' = exc

\* C15: when a frame read fails inside the loop, that tick does not increment
\* the frame counter, invoke the detector, call the debouncer or display, and
\* run() returns normally; when the quit key is polled, no further frame is
\* read and run() returns normally.
C15_StopTriggers ==
    /\ [](pc \in {"read", "infer", "for", "poll", "done"} => exc = "none")
    /\ [][ReadFailedStep
             => /\ pc' = "finally"
                /\ frame_count' = frame_count
                /\ inferTicks' = inferTicks
                /\ current_detections' = current_detections
                /\ alerts' = alerts
                /\ last_alert_time' = last_alert_time
                /\ displayed' = displayed]_vars
    /\ [][(pc = "poll" /\ pc' # pc)
             => /\ pc' \in {"read", "finally"}
                /\ exc' = exc
                /\ reads' = reads]_vars
    /\ [][(pc \in {"finally", "done"})
             => /\ pc' \in {"finally", "done", "raised"}
                /\ (exc = "none" => pc' \in {"finally", "done"})
                /\ reads' = reads
                /\ frame_count' = frame_count
                /\ inferTicks' = inferTicks
                /\ alerts' = alerts
                /\ displayed' = displayed]_vars

\* run() has returned after the read of the fifth tick failed: four ticks
\* were counted and displayed, an alert had fired
C15_Witness ==
    /\ pc = "done"
    /\ frame = NoFrame
    /\ reads = 6
    /\ frame_count = 4
    /\ displayed = 4
    /\ alerts # <<>>
    /\ cap_released

\* C16: each fired alert produces exactly one evidence save and exactly one
\* audio dispatch, in the order: lastAlertTimestamp updated, evidence saved,
\* audio worker started, all within the firing tick.
C16_SideEffectsOfOneAlert ==
    /\ \A i \in 1..Len(alerts) :
          LET IsEffect(e) == e \in {"stamp", "imwrite", "thread"}
          IN  SelectSeq(alerts[i].effects, IsEffect) = <<"stamp", "imwrite", "thread">>
    /\ audio.running + audio.finished + audio.failed = Len(alerts)

\* C17: zone evaluation and the debouncer run for each cached detection on
\* every tick, inference or not: an in-zone cached detection fires on the
\* first call whose time exceeds lastAlertTimestamp + 5, and the evidence
\* saved is the frame of that tick.
C17_CacheDrivesDebouncer ==
    /\ [](pc = "poll" =>
            /\ idx = Len(current_detections) + 1
            /\ threat_active <=> (PassedInZone # {}))
    /\ [][TriggerStep =>
            IF clock' - last_alert_time > ALERT_COOLDOWN_SECONDS * TimeRes
            THEN /\ Len(alerts') = Len(alerts) + 1
                 /\ alerts'[Len(alerts')].time = clock'
                 /\ alerts'[Len(alerts')].label = current_detections[idx].label
                 /\ alerts'[Len(alerts')].frame = reads
                 /\ alerts'[Len(alerts')].frame = frame_count + 1
            ELSE alerts' = alerts]_vars

\* an alert has just fired on tick 5, which ran no inference, for a detection
\* cached on tick 3, with the frame read on tick 5 as evidence
C17_Witness ==
    /\ pc = "for"
    /\ frame_count = 5
    /\ idx = 2
    /\ alerts # <<>>
    /\ alerts[Len(alerts)].frame = 6
    /\ alerts[Len(alerts)].time = clock
    /\ inferTicks = <<3>>

\* the alerts fired on the current tick
AlertsOfTick == {k \in 1..Len(alerts) : alerts[k].frame = frame}

FirstPassedInZone == CHOOSE k \in PassedInZone : \A j \in PassedInZone : k <= j

\* lastAlertTimestamp as it was before alert k fired
StampBefore(k) == IF k = 1 THEN 0 ELSE alerts[k - 1].time

\* less than the cooldown has elapsed since the frame of the tick was read
ShortTick ==
    /\ pc \in {"for", "poll"}
    /\ clock - tick_start < ALERT_COOLDOWN_SECONDS * TimeRes

\* C18 as claimed: when less than the cooldown elapses while a tick is
\* processed, the tick fires at most one alert and that alert carries the
\* label of the first in-zone detection in cache order.
C18_FirstInZoneLabel ==
    ShortTick =>
        /\ Cardinality(AlertsOfTick) <= 1
        /\ \A k \in AlertsOfTick :
              /\ PassedInZone # {}
              /\ alerts[k].label = current_detections[FirstPassedInZone].label

\* C18 as amended: when less than the cooldown elapses while a tick is
\* processed, the tick fires at most one alert; the alert carries the label
\* of one of the tick's in-zone detections, which is the first in cache order
\* when the cooldown had already elapsed as the tick's frame was read.
C18_AtMostOneAlertPerTick ==
    ShortTick =>
        /\ Cardinality(AlertsOfTick) <= 1
        /\ \A k \in AlertsOfTick :
              /\ \E j \in PassedInZone :
                    alerts[k].label = current_detections[j].label
              /\ (tick_start - StampBefore(k) > ALERT_COOLDOWN_SECONDS * TimeRes)
                    => alerts[k].label = current_detections[FirstPassedInZone].label

\* a short tick with a person then a knife in the zone: the person's call
\* stayed quiet, the cooldown ran out, and the alert fired for the knife
C18_Witness ==
    /\ ShortTick
    /\ idx = 3
    /\ PassedInZone = {1, 2}
    /\ current_detections[1].label = "person"
    /\ current_detections[2].label = "knife"
    /\ AlertsOfTick # {}
    /\ alerts[Len(alerts)].label = "knife"
    /\ alerts[Len(alerts)].time > tick_start

\* C19: within one run any two fired alerts write to different filenames
\* threat_<int(timestamp)>.jpg, so no alert overwrites the evidence of an
\* earlier one.
C19_EvidenceFilenamesDistinct ==
    \A i \in 1..Len(alerts) : \A j \in 1..Len(alerts) :
        i # j => alerts[i].file # alerts[j].file

\* two alerts, the first at a time with a fractional part, so that its
\* filename is a truncation
C19_Witness ==
    /\ Len(alerts) = 2
    /\ alerts[1].time % TimeRes # 0
    /\ alerts[1].file * TimeRes < alerts[1].time
    /\ alerts[2].file > alerts[1].file

\* C20: the detection cache is empty until the first inference tick: in
\* every state with frame counter < 3 the cache is empty, no alert has fired
\* and lastAlertTimestamp has its initial value.
C20_BlindStart ==
    frame_count < 3 =>
        /\ current_detections = <<>>
        /\ alerts = <<>>
        /\ last_alert_time = 0
        /\ inferTicks = <<>>

\* the second tick has been displayed with a zone set and the cooldown
\* elapsed since the initial stamp
C20_Witness ==
    /\ frame_count = 2
    /\ pc = "poll"
    /\ displayed = 2
    /\ danger_zone # None
    /\ clock - last_alert_time > ALERT_COOLDOWN_SECONDS * TimeRes

====
